---- MODULE Spec2Model ----
(***************************************************************************)
(* Model of http-serve's request evaluation (src/src/serving.rs): the      *)
(* conditional checks, the range resolver, the response composer and the   *)
(* lazily streamed multipart/byteranges body.                              *)
(*                                                                         *)
(* One behaviour is one request: Init draws the request headers and the    *)
(* entity's metadata, Serve is one call of serving::serve, and PollBody is *)
(* one poll of the multipart body stream by the transport.                 *)
(***************************************************************************)
EXTENDS Integers, Sequences, FiniteSets, TLC

(***************************************************************************)
(* Bounds of the model.                                                    *)
(***************************************************************************)
\* u64 is scaled down to U64Bits bits, so that wrap-around is reachable.
U64Bits == 10
\* longest list of entity-tags in If-Match / If-None-Match
MaxTags == 2
\* longest byte-range-set of a Range header
MaxUnits == 2
\* timestamps are 1..MaxTime
MaxTime == 2
\* the entity gives the bytes of one range in at most MaxChunks chunks
MaxChunks == 2
\* the resolver alone is run on the offsets and lengths 0..MaxOffset
MaxOffset == 2

Modulus == 2 ^ U64Bits
U64Max == Modulus - 1

(***************************************************************************)
(* Option values.                                                          *)
(***************************************************************************)
NoneVal == [some |-> FALSE]
Some(x) == [some |-> TRUE, v |-> x]

Min(a, b) == IF a <= b THEN a ELSE b

RECURSIVE SeqsUpTo(_, _)
SeqsUpTo(S, n) ==
    IF n = 0 THEN {<<>>}
    ELSE LET shorter == SeqsUpTo(S, n - 1)
         IN  shorter \cup {Append(s, x) : s \in {t \in shorter : Len(t) = n - 1}, x \in S}

(***************************************************************************)
(* Entity tags and their two comparison functions.                         *)
(***************************************************************************)
EntityTag(w, t) == [weak |-> w, tag |-> t]

strong_eq_weak_allowed(a, b) == a.tag = b.tag
strong_eq(a, b) == ~a.weak /\ ~b.weak /\ a.tag = b.tag

weak_eq(a, b) == a.tag = b.tag

(***************************************************************************)
(* Range resolver: parse_range_header.                                     *)
(***************************************************************************)
FromTo(a, b) == [kind |-> "FromTo", from |-> a, to |-> b]
AllFrom(a) == [kind |-> "AllFrom", from |-> a, to |-> 0]
Last(n) == [kind |-> "Last", from |-> n, to |-> 0]

Range(s, t) == [start |-> s, end |-> t]

\* range_to + 1 in u64: wraps to 0 at U64Max when overflow checks are off.
range_to_plus_one(range_to) == (range_to + 1) % Modulus

\* The unit is "not satisfiable; skip".
unit_skipped_suffix_of_whole_length_kept(u, len) ==
    CASE u.kind = "FromTo" -> u.from >= Min(range_to_plus_one(u.to), len)
      [] u.kind = "AllFrom" -> u.from >= len
      [] u.kind = "Last" -> u.from > len
unit_skipped(u, len) ==
    CASE u.kind = "FromTo" -> u.from >= Min(range_to_plus_one(u.to), len)
      [] u.kind = "AllFrom" -> u.from >= len
      [] u.kind = "Last" -> u.from >= len

\* The half-open range pushed for a unit that is not skipped.
unit_range_unclamped(u, len) ==
    CASE u.kind = "FromTo" -> Range(u.from, range_to_plus_one(u.to))
      [] u.kind = "AllFrom" -> Range(u.from, len)
      [] u.kind = "Last" -> Range(len - u.from, len)
unit_range(u, len) ==
    CASE u.kind = "FromTo" -> Range(u.from, Min(range_to_plus_one(u.to), len))
      [] u.kind = "AllFrom" -> Range(u.from, len)
      [] u.kind = "Last" -> Range(len - u.from, len)

RECURSIVE resolve_units_deduplicated(_, _, _)
resolve_units_deduplicated(byte_ranges, len, ranges) ==
    IF byte_ranges = <<>> THEN ranges
    ELSE LET u == Head(byte_ranges)
         IN  resolve_units_deduplicated(Tail(byte_ranges), len,
                IF \/ unit_skipped(u, len)
                   \/ \E k \in 1..Len(ranges) : ranges[k] = unit_range(u, len)
                THEN ranges
                ELSE Append(ranges, unit_range(u, len)))
RECURSIVE resolve_units(_, _, _)
resolve_units(byte_ranges, len, ranges) ==
    IF byte_ranges = <<>> THEN ranges
    ELSE LET u == Head(byte_ranges)
         IN  resolve_units(Tail(byte_ranges), len,
                           IF unit_skipped(u, len) THEN ranges
                           ELSE Append(ranges, unit_range(u, len)))

\* With overflow checks on (a debug build) range_to + 1 aborts at U64Max.
range_overflows(range) ==
    /\ range.kind = "Bytes"
    /\ \E i \in 1..Len(range.specs) :
          range.specs[i].kind = "FromTo" /\ range.specs[i].to = U64Max

parse_range_header_empty_is_none(range, len) ==
    IF range.kind = "Bytes"
    THEN LET ranges == resolve_units(range.specs, len, <<>>)
         IN  IF ranges # <<>>
             THEN [kind |-> "Satisfiable", ranges |-> ranges]
             ELSE [kind |-> "None", ranges |-> <<>>]
    ELSE [kind |-> "None", ranges |-> <<>>]
parse_range_header(range, len) ==
    IF range.kind = "Bytes"
    THEN LET ranges == resolve_units(range.specs, len, <<>>)
         IN  IF ranges # <<>>
             THEN [kind |-> "Satisfiable", ranges |-> ranges]
             ELSE [kind |-> "NotSatisfiable", ranges |-> <<>>]
    ELSE [kind |-> "None", ranges |-> <<>>]

(***************************************************************************)
(* Conditional evaluator: none_match and any_match.                        *)
(***************************************************************************)
HeaderNone == [kind |-> "None", items |-> <<>>]
HeaderAny == [kind |-> "Any", items |-> <<>>]
HeaderItems(ts) == [kind |-> "Items", items |-> ts]

\* TRUE iff the request has no If-None-Match header matching etag.
none_match_strong(etag, req) ==
    CASE req.if_none_match.kind = "Any" -> FALSE
      [] req.if_none_match.kind = "Items" ->
            ~(etag.some /\ \E i \in 1..Len(req.if_none_match.items) :
                              strong_eq(req.if_none_match.items[i], etag.v))
      [] OTHER -> TRUE
none_match(etag, req) ==
    CASE req.if_none_match.kind = "Any" -> FALSE
      [] req.if_none_match.kind = "Items" ->
            ~(etag.some /\ \E i \in 1..Len(req.if_none_match.items) :
                              weak_eq(req.if_none_match.items[i], etag.v))
      [] OTHER -> TRUE

\* TRUE iff the request has no If-Match header or one which matches etag.
any_match(etag, req) ==
    CASE req.if_match.kind \in {"None", "Any"} -> TRUE
      [] OTHER -> etag.some /\ \E i \in 1..Len(req.if_match.items) :
                                  strong_eq(req.if_match.items[i], etag.v)

(***************************************************************************)
(* Responses.                                                              *)
(***************************************************************************)
NoContentRange == [kind |-> "None", first |-> 0, last |-> 0, len |-> 0]
ContentRangeBytes(first, last, len) ==
    [kind |-> "Bytes", first |-> first, last |-> last, len |-> len]
ContentRangeUnsatisfied(len) ==
    [kind |-> "Unsatisfied", first |-> 0, last |-> 0, len |-> len]

EmptyBody == [kind |-> "Empty", text |-> "", range |-> Range(0, 0)]
OnceBody(text) == [kind |-> "Once", text |-> text, range |-> Range(0, 0)]
\* the stream e.get_range(range) returned
EntityBody(range) == [kind |-> "Entity", text |-> "", range |-> range]
\* the flattened stream of part headers, part bodies and the trailer
MultipartBody == [kind |-> "Multipart", text |-> "", range |-> Range(0, 0)]

\* Response::new(): 200, no headers, no body.
Response_new ==
    [status |-> 200,
     allow |-> {},
     accept_ranges |-> FALSE,
     date |-> NoneVal,
     last_modified |-> NoneVal,
     etag |-> NoneVal,
     content_range |-> NoContentRange,
     content_length |-> NoneVal,
     content_type |-> "",
     entity_headers |-> FALSE,
     body |-> EmptyBody]

\* What one call of serve did besides building the response.
\*   range_hdr:   the header handed to parse_range_header, if it was called
\*   get_range:   the ranges e.get_range was called with, in call order
\*   add_headers: the number of calls of e.add_headers
\*   rs:          the resolved ranges kept by the multipart body stream
\*   part_headers: the header block of each part of a multipart response
\*   resolved:    what parse_range_header returned, if it was called
\*   overflow:    the first u64 operation of the call that overflowed ("" when
\*                none did); the response is the one of wrapping arithmetic
Outcome(res, range_hdr, get_range, add_headers) ==
    [res |-> res, range_hdr |-> range_hdr, get_range |-> get_range,
     add_headers |-> add_headers, rs |-> <<>>, part_headers |-> <<>>,
     resolved |-> NoneVal, overflow |-> ""]

(***************************************************************************)
(* Multipart body generator: send_multipart.                               *)
(***************************************************************************)
\* "80" is the RFC's estimate of the size of each part's header.
PartHeaderEstimate == 80
\* b"\r\n--B--\r\n".len()
TRAILER_len == 9
\* "\r\n--B\r\nContent-Range: bytes ".len()
PartPrefix_len == 28
\* the entity's content headers as rendered into each part:
\* "content-type: application/octet-stream\r\n".len()
EntityHeaders_len == 40

\* the Content-Type that e.add_headers sets
EntityContentType == "application/octet-stream"

\* number of characters of "{}" for an unsigned integer
RECURSIVE DecLen(_)
DecLen(n) == IF n < 10 THEN 1 ELSE 1 + DecLen(n \div 10)

\* buf of one part: "\r\n--B\r\nContent-Range: bytes {}-{}/{}\r\n" followed by
\* each_part_headers (the entity's headers, if included, and "\r\n").
part_header(r, len, include_entity_headers) ==
    [first |-> r.start,
     last |-> r.end - 1,
     len |-> len,
     entity_headers |-> include_entity_headers,
     size |-> PartPrefix_len + DecLen(r.start) + 1 + DecLen(r.end - 1) + 1
              + DecLen(len) + 2
              + (IF include_entity_headers THEN EntityHeaders_len ELSE 0) + 2]

\* body_len after the loop over rs[1..n] and the trailer, as an unbounded sum
RECURSIVE body_len_sum(_, _, _, _)
body_len_sum(rs, n, len, include_entity_headers) ==
    IF n = 0 THEN 0
    ELSE body_len_sum(rs, n - 1, len, include_entity_headers)
         + part_header(rs[n], len, include_entity_headers).size
         + rs[n].end - rs[n].start

\* some "+" of the body_len computation exceeds u64
RECURSIVE body_len_overflows(_, _, _, _)
body_len_overflows(rs, n, len, include_entity_headers) ==
    IF n = 0 THEN FALSE
    ELSE \/ body_len_overflows(rs, n - 1, len, include_entity_headers)
         \/ part_header(rs[n], len, include_entity_headers).size + rs[n].end > U64Max
         \/ (body_len_sum(rs, n - 1, len, include_entity_headers) % Modulus)
            + ((part_header(rs[n], len, include_entity_headers).size
                + rs[n].end - rs[n].start) % Modulus) > U64Max

send_multipart(e, req, res, rs, len, include_entity_headers) ==
    LET sum == body_len_sum(rs, Len(rs), len, include_entity_headers)
        body_len == ((sum % Modulus) + TRAILER_len) % Modulus
        res1 == [res EXCEPT !.content_length = Some(body_len),
                            !.content_type = "multipart/byteranges; boundary=B",
                            !.status = 206]
    IN  [res |-> [res1 EXCEPT !.body = IF req.method = "HEAD" THEN EmptyBody
                                       ELSE MultipartBody],
         range_hdr |-> NoneVal,
         get_range |-> <<>>,
         add_headers |-> IF include_entity_headers THEN 1 ELSE 0,
         rs |-> IF req.method = "HEAD" THEN <<>> ELSE rs,
         part_headers |-> IF req.method = "HEAD" THEN <<>>
                          ELSE [i \in 1..Len(rs) |->
                                   part_header(rs[i], len, include_entity_headers)],
         resolved |-> NoneVal,
         overflow |-> IF \/ body_len_overflows(rs, Len(rs), len, include_entity_headers)
                         \/ (sum % Modulus) + TRAILER_len > U64Max
                      THEN "body_len" ELSE ""]

(***************************************************************************)
(* Response composer: serve.                                               *)
(***************************************************************************)
RangeNone == [kind |-> "None", specs |-> <<>>]
RangeBytes(specs) == [kind |-> "Bytes", specs |-> specs]
\* header::Range::Unregistered: a range unit other than bytes
RangeUnregistered == [kind |-> "Unregistered", specs |-> <<>>]

IfRangeNone == [kind |-> "None", tag |-> EntityTag(FALSE, ""), date |-> 0]
IfRangeEntityTag(t) == [kind |-> "EntityTag", tag |-> t, date |-> 0]
IfRangeDate(d) == [kind |-> "Date", tag |-> EntityTag(FALSE, ""), date |-> d]

precondition_failed_not_strict(e, req) ==
    IF ~any_match(e.etag, req) THEN TRUE
    ELSE IF e.last_modified.some /\ req.if_unmodified_since.some
         THEN e.last_modified.v >= req.if_unmodified_since.v
         ELSE FALSE
precondition_failed(e, req) ==
    IF ~any_match(e.etag, req) THEN TRUE
    ELSE IF e.last_modified.some /\ req.if_unmodified_since.some
         THEN e.last_modified.v > req.if_unmodified_since.v
         ELSE FALSE

not_modified_since_only_without_tags(e, req) ==
    IF ~none_match(e.etag, req) THEN TRUE
    ELSE IF e.last_modified.some /\ req.if_modified_since.some
            /\ req.if_none_match.kind = "None"
         THEN e.last_modified.v <= req.if_modified_since.v
         ELSE FALSE
not_modified_strict(e, req) ==
    IF ~none_match(e.etag, req) THEN TRUE
    ELSE IF e.last_modified.some /\ req.if_modified_since.some
         THEN e.last_modified.v < req.if_modified_since.v
         ELSE FALSE
not_modified(e, req) ==
    IF ~none_match(e.etag, req) THEN TRUE
    ELSE IF e.last_modified.some /\ req.if_modified_since.some
         THEN e.last_modified.v <= req.if_modified_since.v
         ELSE FALSE

\* range_hdr after the If-Range match: the Range header, or None when an If-Range
\* header is present and does not strong-match.
range_hdr_date_honored(e, req) ==
    CASE req.if_range.kind = "EntityTag" ->
            IF e.etag.some /\ strong_eq(req.if_range.tag, e.etag.v)
            THEN req.range ELSE RangeNone
      [] req.if_range.kind = "Date" ->
            IF e.last_modified.some /\ req.if_range.date = e.last_modified.v
            THEN req.range ELSE RangeNone
      [] OTHER -> req.range
range_hdr(e, req) ==
    CASE req.if_range.kind = "EntityTag" ->
            IF e.etag.some /\ strong_eq(req.if_range.tag, e.etag.v)
            THEN req.range ELSE RangeNone
      [] req.if_range.kind = "Date" -> RangeNone
      [] OTHER -> req.range

include_entity_headers_always(e, req) == TRUE
include_entity_headers_on_range(e, req) ==
    CASE req.if_range.kind = "EntityTag" ->
            ~(e.etag.some /\ strong_eq(req.if_range.tag, e.etag.v))
      [] req.if_range.kind = "Date" -> TRUE
      [] OTHER -> TRUE

\* The response before branching: Accept-Ranges, Date and Last-Modified (when the
\* modification time is known) and ETag (when there is a validator).
base_response_without_accept_ranges(e, now) ==
    [Response_new EXCEPT
        !.date = IF e.last_modified.some THEN Some(now) ELSE NoneVal,
        !.last_modified = IF e.last_modified.some
                          THEN Some(Min(e.last_modified.v, now)) ELSE NoneVal,
        !.etag = e.etag]
base_response_unclamped(e, now) ==
    [Response_new EXCEPT
        !.accept_ranges = TRUE,
        !.date = IF e.last_modified.some THEN Some(now) ELSE NoneVal,
        !.last_modified = e.last_modified,
        !.etag = e.etag]
base_response(e, now) ==
    [Response_new EXCEPT
        !.accept_ranges = TRUE,
        !.date = IF e.last_modified.some THEN Some(now) ELSE NoneVal,
        !.last_modified = IF e.last_modified.some
                          THEN Some(Min(e.last_modified.v, now)) ELSE NoneVal,
        !.etag = e.etag]

\* est_len as an unbounded sum over rs[1..n]
RECURSIVE est_len_sum(_, _)
est_len_sum(rs, n) ==
    IF n = 0 THEN 0
    ELSE est_len_sum(rs, n - 1) + PartHeaderEstimate + rs[n].end - rs[n].start

\* some "+" of the est_len computation exceeds u64
RECURSIVE est_len_overflows(_, _)
est_len_overflows(rs, n) ==
    IF n = 0 THEN FALSE
    ELSE \/ est_len_overflows(rs, n - 1)
         \/ PartHeaderEstimate + rs[n].end > U64Max
         \/ (est_len_sum(rs, n - 1) % Modulus)
            + ((PartHeaderEstimate + rs[n].end - rs[n].start) % Modulus) > U64Max

est_len(rs) == est_len_sum(rs, Len(rs)) % Modulus

\* The tail of serve: entity headers, Content-Length and the body.
finish_head_without_length(e, req, res, range, include_entity_headers, hdr) ==
    LET res1 == IF include_entity_headers
                THEN [res EXCEPT !.entity_headers = TRUE, !.content_type = EntityContentType]
                ELSE res
        res2 == [res1 EXCEPT !.content_length = Some(range.end - range.start)]
    IN  IF req.method = "HEAD"
        THEN Outcome(res1, Some(hdr), <<>>, IF include_entity_headers THEN 1 ELSE 0)
        ELSE Outcome([res2 EXCEPT !.body = EntityBody(range)], Some(hdr), <<range>>,
                     IF include_entity_headers THEN 1 ELSE 0)
finish_head_reads(e, req, res, range, include_entity_headers, hdr) ==
    LET res1 == IF include_entity_headers
                THEN [res EXCEPT !.entity_headers = TRUE, !.content_type = EntityContentType]
                ELSE res
        res2 == [res1 EXCEPT !.content_length = Some(range.end - range.start)]
    IN  IF req.method = "HEAD"
        THEN Outcome(res2, Some(hdr), <<range>>, IF include_entity_headers THEN 1 ELSE 0)
        ELSE Outcome([res2 EXCEPT !.body = EntityBody(range)], Some(hdr), <<range>>,
                     IF include_entity_headers THEN 1 ELSE 0)
finish(e, req, res, range, include_entity_headers, hdr) ==
    LET res1 == IF include_entity_headers
                THEN [res EXCEPT !.entity_headers = TRUE, !.content_type = EntityContentType]
                ELSE res
        res2 == [res1 EXCEPT !.content_length = Some(range.end - range.start)]
    IN  IF req.method = "HEAD"
        THEN Outcome(res2, Some(hdr), <<>>, IF include_entity_headers THEN 1 ELSE 0)
        ELSE Outcome([res2 EXCEPT !.body = EntityBody(range)], Some(hdr), <<range>>,
                     IF include_entity_headers THEN 1 ELSE 0)

single_range_response_closed_end(res, r, len) ==
    [res EXCEPT !.content_range = ContentRangeBytes(r.start, r.end, len),
                !.status = 206]
single_range_response(res, r, len) ==
    [res EXCEPT !.content_range = ContentRangeBytes(r.start, r.end - 1, len),
                !.status = 206]

multipart_is_cheaper(rs, len) == est_len(rs) < len

\* Lines 236-244: Content-Range bytes */len and status 416; the body stays empty.
not_satisfiable_response_without_content_range(res, len) ==
    [res EXCEPT !.status = 416]
not_satisfiable_response(res, len) ==
    [res EXCEPT !.content_range = ContentRangeUnsatisfied(len),
                !.status = 416]

\* Lines 212-258: the range stage, reached when no conditional check exits.
serve_ranges(e, req, res) ==
    LET hdr == range_hdr(e, req)
        len == e.len
        resolved == parse_range_header(hdr, len)
        rs == resolved.ranges
        out ==
          CASE resolved.kind = "None" -> finish(e, req, res, Range(0, len), TRUE, hdr)
            [] resolved.kind = "Satisfiable" ->
                 IF Len(rs) = 1
                 THEN finish(e, req, single_range_response(res, rs[1], len), rs[1],
                             include_entity_headers_on_range(e, req), hdr)
                 ELSE IF multipart_is_cheaper(rs, len)
                      THEN [send_multipart(e, req, res, rs, len,
                                           include_entity_headers_on_range(e, req))
                            EXCEPT !.range_hdr = Some(hdr)]
                      ELSE finish(e, req, res, Range(0, len), TRUE, hdr)
            [] resolved.kind = "NotSatisfiable" ->
                 Outcome(not_satisfiable_response(res, len), Some(hdr), <<>>, 0)
    IN  [out EXCEPT !.resolved = Some(resolved), !.overflow =
            IF range_overflows(hdr) THEN "range_to + 1"
            ELSE IF resolved.kind = "Satisfiable" /\ Len(rs) > 1
                    /\ est_len_overflows(rs, Len(rs))
                 THEN "est_len"
                 ELSE out.overflow]

conditional_exit_not_modified_first(e, req) ==
    IF not_modified(e, req) THEN 304
    ELSE IF precondition_failed(e, req) THEN 412
    ELSE 0
\* Lines 200-210: the status the conditional checks force, 0 when they force none.
conditional_exit(e, req) ==
    IF precondition_failed(e, req) THEN 412
    ELSE IF not_modified(e, req) THEN 304
    ELSE 0

\* Line 118: the method is one serve handles.
method_allowed_any(req) == TRUE
method_allowed(req) == req.method = "GET" \/ req.method = "HEAD"

\* The entity's accessors serve calls: last_modified() and etag() after the
\* method check, len() when the range stage is reached.
consulted(e, req) ==
    IF ~method_allowed(req) THEN {}
    ELSE IF conditional_exit(e, req) # 0 THEN {"last_modified", "etag"}
    ELSE {"last_modified", "etag", "len"}

\* Lines 119-125: the response to another method.
method_not_allowed_response_text_plain ==
    [Response_new EXCEPT
        !.status = 405,
        !.content_type = "text/plain",
        !.allow = {"GET", "HEAD"},
        !.body = OnceBody("This resource only supports GET and HEAD.")]
method_not_allowed_response ==
    [Response_new EXCEPT
        !.status = 405,
        !.allow = {"GET", "HEAD"},
        !.body = OnceBody("This resource only supports GET and HEAD.")]

serve(e, req, now) ==
    IF ~method_allowed(req)
    THEN Outcome(method_not_allowed_response, NoneVal, <<>>, 0)
    ELSE LET res == base_response(e, now)
             exit == conditional_exit(e, req)
         IN  CASE exit = 412 ->
                    Outcome([res EXCEPT !.status = 412,
                                        !.body = OnceBody("Precondition failed")],
                            NoneVal, <<>>, 0)
               [] exit = 304 ->
                    Outcome([res EXCEPT !.status = 304], NoneVal, <<>>, 0)
               [] OTHER -> serve_ranges(e, req, res)

(***************************************************************************)
(* The multipart body stream: stream::unfold(0, ..).flatten().             *)
(***************************************************************************)
NoInner == [kind |-> "NoInner", item |-> NoneVal, range |-> Range(0, 0), pos |-> 0, chunks |-> 0]
\* InnerBody::Once(o)
InnerOnce(o) == [kind |-> "Once", item |-> o, range |-> Range(0, 0), pos |-> 0, chunks |-> 0]
\* InnerBody::B(e.get_range(range)); the entity's stream has given the bytes
\* range.start..pos in `chunks` chunks
InnerB(range, pos, chunks) ==
    [kind |-> "B", item |-> NoneVal, range |-> range, pos |-> pos, chunks |-> chunks]

EmptyVec == [first |-> 0, last |-> 0, len |-> 0, entity_headers |-> FALSE, size |-> 0]

HeaderChunk(h) == [kind |-> "header", header |-> h, range |-> Range(0, 0)]
DataChunk(r) == [kind |-> "data", header |-> EmptyVec, range |-> r]
TrailerChunk == [kind |-> "trailer", header |-> EmptyVec, range |-> Range(0, 0)]

\* number of bytes of a chunk
chunk_len(c) ==
    CASE c.kind = "header" -> c.header.size
      [] c.kind = "data" -> c.range.end - c.range.start
      [] c.kind = "trailer" -> TRAILER_len

\* The stream before its first poll.
\*   state, rs, part_headers: what the unfold closure holds
\*   next:      the inner stream flatten is draining
\*   get_range: the ranges the closure called e.get_range with, in call order
\*   out:       the chunks handed to the consumer, in order
\*   result:    what the consumer's last poll returned ("" before the first poll)
\*   done, failed: a poll returned the end of the stream / an error
\*   entity:    what the last poll of an entity's stream answered ("" before it)
NewStream(rs, part_headers) ==
    [state |-> 0, rs |-> rs, part_headers |-> part_headers, next |-> NoInner,
     done |-> FALSE, failed |-> FALSE, result |-> "", out |-> <<>>, get_range |-> <<>>,
     entity |-> ""]

\* What the entity's stream may answer to a poll: its remaining bytes in one
\* chunk, a part of them, NotReady, or an error.
EntityAnswers == {"ready", "ready_part", "not_ready", "error"}

\* One poll of the stream e.get_range(b.range) returned, answered by ev: the
\* result of the poll and the offset after it.
entity_poll(b, ev) ==
    CASE ev = "not_ready" -> [result |-> "not_ready", pos |-> b.pos]
      [] ev = "error" -> [result |-> "error", pos |-> b.pos]
      [] b.pos = b.range.end -> [result |-> "end", pos |-> b.pos]
      [] ev = "ready_part" /\ b.range.end - b.pos >= 2 /\ b.chunks + 1 < MaxChunks ->
            [result |-> "chunk", pos |-> b.pos + (b.range.end - b.pos) \div 2]
      [] OTHER -> [result |-> "chunk", pos |-> b.range.end]

\* The unfold closure has returned None (i == rs.len() && odd).
unfold_finished(st) == st.state \div 2 = Len(st.rs) /\ st.state % 2 = 1

\* One call of the unfold closure: the next InnerBody and the closure's new state.
\* Called only while the closure has something left.
unfold_step_eager(st) ==
    LET i == st.state \div 2
        odd == st.state % 2 = 1
    IN  IF i = Len(st.rs)
        THEN [st EXCEPT !.next = InnerOnce(Some(TrailerChunk)), !.state = @ + 1]
        ELSE IF odd
             THEN [st EXCEPT !.next = InnerB(st.rs[i + 1], st.rs[i + 1].start, 0),
                             !.state = @ + 1]
             ELSE [st EXCEPT !.next = InnerOnce(Some(HeaderChunk(st.part_headers[i + 1]))),
                             !.part_headers[i + 1] = EmptyVec,
                             !.get_range = Append(@, st.rs[i + 1]),
                             !.state = @ + 1]
unfold_step_body_first(st) ==
    LET i == st.state \div 2
        odd == st.state % 2 = 1
    IN  IF i = Len(st.rs)
        THEN [st EXCEPT !.next = InnerOnce(Some(TrailerChunk)), !.state = @ + 1]
        ELSE IF ~odd
             THEN [st EXCEPT !.next = InnerB(st.rs[i + 1], st.rs[i + 1].start, 0),
                             !.get_range = Append(@, st.rs[i + 1]),
                             !.state = @ + 1]
             ELSE [st EXCEPT !.next = InnerOnce(Some(HeaderChunk(st.part_headers[i + 1]))),
                             !.part_headers[i + 1] = EmptyVec,
                             !.state = @ + 1]
unfold_step(st) ==
    LET i == st.state \div 2
        odd == st.state % 2 = 1
    IN  IF i = Len(st.rs)
        THEN [st EXCEPT !.next = InnerOnce(Some(TrailerChunk)), !.state = @ + 1]
        ELSE IF odd
             THEN [st EXCEPT !.next = InnerB(st.rs[i + 1], st.rs[i + 1].start, 0),
                             !.get_range = Append(@, st.rs[i + 1]),
                             !.state = @ + 1]
             ELSE [st EXCEPT !.next = InnerOnce(Some(HeaderChunk(st.part_headers[i + 1]))),
                             !.part_headers[i + 1] = EmptyVec,
                             !.state = @ + 1]

RECURSIVE flatten_poll_masks_error(_, _)
flatten_poll_masks_error(st, ev) ==
    IF st.next.kind = "NoInner"
    THEN IF unfold_finished(st)
         THEN [st EXCEPT !.done = TRUE, !.result = "end"]
         ELSE flatten_poll_masks_error(unfold_step(st), ev)
    ELSE IF st.next.kind = "Once"
         THEN IF st.next.item.some
              THEN [st EXCEPT !.out = Append(@, st.next.item.v),
                              !.next = InnerOnce(NoneVal),
                              !.result = "chunk"]
              ELSE flatten_poll_masks_error([st EXCEPT !.next = NoInner], ev)
         ELSE LET p == entity_poll(st.next, ev)
              IN  CASE p.result = "chunk" ->
                         [st EXCEPT !.out = Append(@, DataChunk(Range(st.next.pos, p.pos))),
                                    !.next = InnerB(st.next.range, p.pos, st.next.chunks + 1),
                                    !.result = "chunk", !.entity = "chunk"]
                    [] p.result = "end" ->
                         flatten_poll_masks_error([st EXCEPT !.next = NoInner,
                                                             !.entity = "end"], ev)
                    [] p.result = "not_ready" ->
                         [st EXCEPT !.result = "not_ready", !.entity = "not_ready"]
                    [] p.result = "error" ->
                         flatten_poll_masks_error([st EXCEPT !.next = NoInner,
                                                             !.entity = "error"], ev)
\* One poll of the flattened stream by the consumer: it loops until an inner
\* stream yields a chunk, is not ready or fails, or the unfold stream ends. ev
\* is the entity's answer if its stream is polled in this poll.
RECURSIVE flatten_poll(_, _)
flatten_poll(st, ev) ==
    IF st.next.kind = "NoInner"
    THEN IF unfold_finished(st)
         THEN [st EXCEPT !.done = TRUE, !.result = "end"]
         ELSE flatten_poll(unfold_step(st), ev)
    ELSE IF st.next.kind = "Once"
         THEN IF st.next.item.some
              THEN [st EXCEPT !.out = Append(@, st.next.item.v),
                              !.next = InnerOnce(NoneVal),
                              !.result = "chunk"]
              ELSE flatten_poll([st EXCEPT !.next = NoInner], ev)
         ELSE LET p == entity_poll(st.next, ev)
              IN  CASE p.result = "chunk" ->
                         [st EXCEPT !.out = Append(@, DataChunk(Range(st.next.pos, p.pos))),
                                    !.next = InnerB(st.next.range, p.pos, st.next.chunks + 1),
                                    !.result = "chunk", !.entity = "chunk"]
                    [] p.result = "end" ->
                         flatten_poll([st EXCEPT !.next = NoInner, !.entity = "end"], ev)
                    [] p.result = "not_ready" ->
                         [st EXCEPT !.result = "not_ready", !.entity = "not_ready"]
                    [] p.result = "error" ->
                         [st EXCEPT !.failed = TRUE, !.result = "error", !.entity = "error"]

(***************************************************************************)
(* Requests and entities of the model.                                     *)
(***************************************************************************)
StrongFoo == EntityTag(FALSE, "foo")
WeakFoo == EntityTag(TRUE, "foo")
StrongBar == EntityTag(FALSE, "bar")
Tags == {StrongFoo, WeakFoo, StrongBar}

\* If-Match / If-None-Match: absent, "*", or a list of 1..MaxTags tags
TagHeaders ==
    {HeaderNone, HeaderAny} \cup {HeaderItems(ts) : ts \in SeqsUpTo(Tags, MaxTags) \ {<<>>}}

Times == 1..MaxTime
OptTimes == {NoneVal} \cup {Some(t) : t \in Times}
\* SystemTime::now(): before, at or after the modification times
NowTimes == {1, MaxTime}

\* the validators of the entities: none, strong, weak
ETags == {NoneVal, Some(StrongFoo), Some(WeakFoo)}

\* entity lengths: empty, small, the acceptance tests' 240, the largest u64
SmallLen == 40
TestLen == 240
Lens == {0, SmallLen, TestLen, U64Max}

\* the last byte of the longest range from 1 that, sent with the range 0-0, keeps
\* est_len below U64Max
LongTo == U64Max - 2 * PartHeaderEstimate - 2

\* byte-range-specs around the boundaries of those lengths
Units ==
    {FromTo(0, 0), FromTo(0, SmallLen - 1), FromTo(0, SmallLen),
     FromTo(SmallLen - 1, SmallLen - 1), FromTo(SmallLen, SmallLen), FromTo(0, U64Max),
     FromTo(1, LongTo),
     AllFrom(0), AllFrom(SmallLen),
     Last(0), Last(1), Last(SmallLen - 1), Last(SmallLen)}
RangeHeaders ==
    {RangeNone, RangeUnregistered} \cup {RangeBytes(us) : us \in SeqsUpTo(Units, MaxUnits)}

IfRanges ==
    {IfRangeNone} \cup {IfRangeEntityTag(t) : t \in Tags} \cup {IfRangeDate(d) : d \in Times}

Request(m, im, inm, ius, ims, ir, r) ==
    [method |-> m, if_match |-> im, if_none_match |-> inm, if_unmodified_since |-> ius,
     if_modified_since |-> ims, if_range |-> ir, range |-> r]
Entity(etag, last_modified, len) ==
    [etag |-> etag, last_modified |-> last_modified, len |-> len]

(***************************************************************************)
(* The state machine of one request.                                       *)
(***************************************************************************)
VARIABLES
    pc,      \* "request": serve not yet called; "responded"; "panicked";
             \* "parse": parse_range_header not yet called; "parsed"
    req,     \* the request
    e,       \* the entity
    res,     \* the response serve returned
    calls,   \* what serve called: range_hdr, resolved, get_range, add_headers, consulted
    stream   \* the multipart body stream and what its consumer received

vars == <<pc, req, e, res, calls, stream>>

\* a few Range headers: absent, unsatisfiable, one range, two ranges
FewRanges ==
    {RangeNone, RangeBytes(<<AllFrom(U64Max)>>), RangeBytes(<<FromTo(0, 0)>>),
     RangeBytes(<<FromTo(0, 0), Last(1)>>)}
\* the same without the two ranges
FewSingleRanges == FewRanges \ {RangeBytes(<<FromTo(0, 0), Last(1)>>)}
\* a few If-None-Match / If-Modified-Since pairs: absent, matching, matching
FewNotModified ==
    {<<HeaderNone, NoneVal>>, <<HeaderAny, NoneVal>>,
     <<HeaderItems(<<WeakFoo>>), Some(MaxTime)>>}
\* a few If-Match / If-Unmodified-Since pairs: absent, passing, failing
FewPreconditions ==
    {<<HeaderNone, NoneVal>>, <<HeaderAny, Some(MaxTime)>>,
     <<HeaderItems(<<StrongFoo>>), Some(1)>>}

\* Requests that vary If-Match and If-Unmodified-Since against every validator.
InitPreconditions ==
    \E m \in {"GET", "HEAD"}, im \in TagHeaders, ius \in OptTimes, nm \in FewNotModified,
       r \in FewSingleRanges, etag \in ETags, lm \in OptTimes :
        /\ req = Request(m, im, nm[1], ius, nm[2],
                         IF r = RangeBytes(<<FromTo(0, 0)>>)
                         THEN IfRangeEntityTag(StrongFoo) ELSE IfRangeNone, r)
        /\ e = Entity(etag, lm, TestLen)

\* Requests that vary If-None-Match and If-Modified-Since against every validator.
InitNotModified ==
    \E m \in {"GET", "HEAD"}, inm \in TagHeaders, ims \in OptTimes, pre \in FewPreconditions,
       r \in FewSingleRanges, etag \in ETags, lm \in OptTimes :
        /\ req = Request(m, pre[1], inm, pre[2], ims,
                         IF r = RangeBytes(<<FromTo(0, 0)>>)
                         THEN IfRangeDate(1) ELSE IfRangeNone, r)
        /\ e = Entity(etag, lm, TestLen)

\* Requests that vary Range against every length, without If-Range.
InitRanges ==
    \E m \in {"GET", "HEAD"}, r \in RangeHeaders, len \in Lens :
        /\ req = Request(m, HeaderNone, HeaderNone, NoneVal, NoneVal, IfRangeNone, r)
        /\ e = Entity(Some(StrongFoo), NoneVal, len)

\* Requests that vary If-Range against every validator and modification time.
InitIfRanges ==
    \E m \in {"GET", "HEAD"}, ir \in IfRanges, r \in FewRanges, etag \in ETags,
       lm \in OptTimes :
        /\ req = Request(m, HeaderNone, HeaderNone, NoneVal, NoneVal, ir, r)
        /\ e = Entity(etag, lm, TestLen)

\* Requests of another method, with any headers.
InitOtherMethods ==
    \E pre \in FewPreconditions, nm \in FewNotModified, ir \in IfRanges, r \in FewRanges,
       etag \in ETags, lm \in OptTimes :
        /\ req = Request("POST", pre[1], nm[1], pre[2], nm[2], ir, r)
        /\ e = Entity(etag, lm, TestLen)

NoCalls ==
    [range_hdr |-> NoneVal, resolved |-> NoneVal, get_range |-> <<>>, add_headers |-> 0,
     consulted |-> {}]

Init ==
    /\ pc = "request"
    /\ \/ InitPreconditions
       \/ InitNotModified
       \/ InitRanges
       \/ InitIfRanges
       \/ InitOtherMethods
    /\ res = Response_new
    /\ calls = NoCalls
    /\ stream = NewStream(<<>>, <<>>)

\* serve returns a response (with wrapping arithmetic where a u64 overflowed).
Serve ==
    /\ pc = "request"
    /\ \E now \in NowTimes :
          LET o == serve(e, req, now)
          IN  /\ res' = o.res
              /\ calls' = [range_hdr |-> o.range_hdr, resolved |-> o.resolved,
                           get_range |-> o.get_range,
                           add_headers |-> o.add_headers,
                           consulted |-> consulted(e, req)]
              /\ stream' = NewStream(o.rs, o.part_headers)
    /\ pc' = "responded"
    /\ UNCHANGED <<req, e>>

\* serve aborts: a build with overflow checks stops at the first u64 overflow.
ServePanics ==
    /\ pc = "request"
    /\ \E now \in NowTimes :
          LET o == serve(e, req, now)
          IN  /\ o.overflow # ""
              /\ calls' = [range_hdr |-> o.range_hdr,
                           resolved |-> IF o.overflow = "range_to + 1"
                                        THEN NoneVal ELSE o.resolved,
                           get_range |-> <<>>,
                           add_headers |-> IF o.overflow = "body_len"
                                           THEN o.add_headers ELSE 0,
                           consulted |-> consulted(e, req)]
    /\ pc' = "panicked"
    /\ UNCHANGED <<req, e, res, stream>>

\* The consumer can poll the multipart body stream.
BodyPollable ==
    /\ pc = "responded"
    /\ res.body.kind = "Multipart"
    /\ ~stream.done
    /\ ~stream.failed

\* The transport polls the multipart body stream once and gets a chunk or the
\* end of the stream.
PollBody ==
    /\ BodyPollable
    /\ \E ev \in {"ready", "ready_part"} : stream' = flatten_poll(stream, ev)
    /\ UNCHANGED <<pc, req, e, res, calls>>

\* The poll reaches the entity's stream, which is not ready.
PollBodyNotReady ==
    /\ BodyPollable
    /\ flatten_poll(stream, "not_ready").result = "not_ready"
    /\ stream' = flatten_poll(stream, "not_ready")
    /\ UNCHANGED <<pc, req, e, res, calls>>

\* The poll reaches the entity's stream, which reports an error; the transport
\* then drops the body.
PollBodyFails ==
    /\ BodyPollable
    /\ flatten_poll(stream, "error").entity = "error"
    /\ stream' = flatten_poll(stream, "error")
    /\ UNCHANGED <<pc, req, e, res, calls>>

Next == Serve \/ ServePanics \/ PollBody \/ PollBodyNotReady \/ PollBodyFails

Spec == Init /\ [][Next]_vars

\* The same with a consumer that keeps polling and an entity whose streams
\* eventually answer.
LiveSpec == Spec /\ WF_vars(PollBody)

(***************************************************************************)
(* The range resolver alone: one behaviour is one call of                  *)
(* parse_range_header, on every header over a few offsets and lengths.     *)
(***************************************************************************)
\* offsets and lengths: 0..MaxOffset and the largest u64
ParseOffsets == (0..MaxOffset) \cup {U64Max}
ParseUnits ==
    {FromTo(a, b) : a \in ParseOffsets, b \in ParseOffsets}
       \cup {AllFrom(a) : a \in ParseOffsets} \cup {Last(n) : n \in ParseOffsets}
ParseHeaders ==
    {RangeNone, RangeUnregistered}
       \cup {RangeBytes(us) : us \in SeqsUpTo(ParseUnits, MaxUnits)}

ParseInit ==
    /\ pc = "parse"
    /\ \E r \in ParseHeaders, len \in ParseOffsets :
          /\ req = Request("GET", HeaderNone, HeaderNone, NoneVal, NoneVal, IfRangeNone, r)
          /\ e = Entity(NoneVal, NoneVal, len)
    /\ res = Response_new
    /\ calls = NoCalls
    /\ stream = NewStream(<<>>, <<>>)

\* parse_range_header returns (with a wrapped range_to + 1 where it overflowed).
Parse ==
    /\ pc = "parse"
    /\ pc' = "parsed"
    /\ calls' = [NoCalls EXCEPT !.range_hdr = Some(req.range),
                                !.resolved = Some(parse_range_header(req.range, e.len))]
    /\ UNCHANGED <<req, e, res, stream>>

\* parse_range_header aborts: a build with overflow checks stops at range_to + 1.
ParsePanics ==
    /\ pc = "parse"
    /\ range_overflows(req.range)
    /\ pc' = "panicked"
    /\ calls' = [NoCalls EXCEPT !.range_hdr = Some(req.range)]
    /\ UNCHANGED <<req, e, res, stream>>

ParseNext == Parse \/ ParsePanics

ParseSpec == ParseInit /\ [][ParseNext]_vars

(***************************************************************************)
(* Vocabulary of the properties, stated on the request and the entity      *)
(* without the operators of the model.                                     *)
(***************************************************************************)
Responded == pc = "responded"
GetOrHead == req.method \in {"GET", "HEAD"}

\* some tag of the list strong-compares equal to the entity's validator
ListedStrongEqual(h) ==
    /\ e.etag.some
    /\ \E i \in 1..Len(h.items) :
          ~h.items[i].weak /\ ~e.etag.v.weak /\ h.items[i].tag = e.etag.v.tag
\* some tag of the list weak-compares equal to the entity's validator
ListedWeakEqual(h) ==
    /\ e.etag.some
    /\ \E i \in 1..Len(h.items) : h.items[i].tag = e.etag.v.tag

IfMatchPasses ==
    \/ req.if_match.kind = "None"
    \/ req.if_match.kind = "Any"
    \/ req.if_match.kind = "Items" /\ ListedStrongEqual(req.if_match)
IfUnmodifiedSinceFails ==
    /\ req.if_unmodified_since.some
    /\ e.last_modified.some
    /\ e.last_modified.v > req.if_unmodified_since.v
PreconditionFails == ~IfMatchPasses \/ IfUnmodifiedSinceFails

IfNoneMatchForces ==
    \/ req.if_none_match.kind = "Any"
    \/ req.if_none_match.kind = "Items" /\ ListedWeakEqual(req.if_none_match)
IfModifiedSinceHolds ==
    /\ req.if_modified_since.some
    /\ e.last_modified.some
    /\ e.last_modified.v <= req.if_modified_since.v
NotModifiedHolds == IfNoneMatchForces \/ IfModifiedSinceHolds

\* the request reaches the range stage of serve
ReachesRanges == GetOrHead /\ ~PreconditionFails /\ ~NotModifiedHolds

IfRangeStrongEqual ==
    /\ req.if_range.kind = "EntityTag"
    /\ e.etag.some
    /\ ~req.if_range.tag.weak /\ ~e.etag.v.weak
    /\ req.if_range.tag.tag = e.etag.v.tag

\* parse_range_header was called, with the request's Range header
RangeHonored == calls.range_hdr = Some(req.range)
\* parse_range_header was called, with no header
RangeIgnored == calls.range_hdr = Some(RangeNone)

\* the 200 response with the whole entity
IsFull ==
    /\ res.status = 200
    /\ res.content_length = Some(e.len)
    /\ res.content_range = NoContentRange
    /\ res.entity_headers
    /\ res.content_type = EntityContentType
    /\ res.body = IF req.method = "GET" THEN EntityBody(Range(0, e.len)) ELSE EmptyBody
    /\ calls.get_range = IF req.method = "GET" THEN <<Range(0, e.len)>> ELSE <<>>

(***************************************************************************)
(* C1..C10: conditional requests and the choice of the response.           *)
(***************************************************************************)

\* C1: a GET or HEAD whose If-Match lists tags none of which strong-compares
\* equal to the validator is answered 412, whatever the other headers are, and
\* the Range header is not evaluated.
C1_IfMatchFailureIs412 ==
    (pc # "request" /\ GetOrHead /\ req.if_match.kind = "Items"
        /\ ~ListedStrongEqual(req.if_match))
    => /\ Responded
       /\ res.status = 412
       /\ calls.range_hdr = NoneVal
       /\ calls.get_range = <<>>

C1_Witness ==
    /\ Responded /\ GetOrHead
    /\ req.if_match.kind = "Items" /\ ~ListedStrongEqual(req.if_match)
    /\ NotModifiedHolds
    /\ req.range.kind = "Bytes"
    /\ res.status = 412

\* C2: the If-Match check passes iff the header is absent, or "*", or the entity
\* has a validator and some listed tag strong-compares equal to it; so a named
\* tag fails without a validator, against a weak validator, and when it is weak.
C2_IfMatchPassesIff ==
    (Responded /\ GetOrHead)
    => /\ any_match(e.etag, req) <=> IfMatchPasses
       /\ ~IfMatchPasses => res.status = 412
       /\ (IfMatchPasses /\ ~IfUnmodifiedSinceFails) => res.status # 412
       /\ (req.if_match.kind = "Items" /\ (~e.etag.some \/ e.etag.v.weak))
             => res.status = 412
       /\ (req.if_match.kind = "Items"
             /\ \A i \in 1..Len(req.if_match.items) : req.if_match.items[i].weak)
             => res.status = 412

C2_Witness ==
    /\ Responded /\ GetOrHead
    /\ req.if_match = HeaderItems(<<WeakFoo>>)
    /\ e.etag = Some(WeakFoo)
    /\ res.status = 412

\* C3: when If-Match passes, If-Unmodified-Since causes 412 iff the modification
\* time is known and strictly after the supplied timestamp.
C3_IfUnmodifiedSince ==
    (Responded /\ GetOrHead /\ IfMatchPasses /\ req.if_unmodified_since.some)
    => (res.status = 412
           <=> (e.last_modified.some
                  /\ e.last_modified.v > req.if_unmodified_since.v))

C3_Witness ==
    /\ Responded /\ GetOrHead /\ IfMatchPasses
    /\ req.if_unmodified_since.some /\ e.last_modified.some
    /\ e.last_modified.v = req.if_unmodified_since.v
    /\ res.status # 412

\* C4: If-None-Match forces not-modified iff it is "*" (with or without a
\* validator) or some listed tag weak-compares equal to the validator; without
\* a validator named tags never force it; when forced and no precondition
\* failed the status is 304.
C4_IfNoneMatchForcesIff ==
    (Responded /\ GetOrHead)
    => /\ ~none_match(e.etag, req) <=> IfNoneMatchForces
       /\ (IfNoneMatchForces /\ ~PreconditionFails) => res.status = 304
       /\ (req.if_none_match.kind = "Items" /\ ~e.etag.some /\ ~IfModifiedSinceHolds)
             => res.status # 304

C4_Witness ==
    /\ Responded /\ GetOrHead
    /\ req.if_none_match.kind = "Items"
    /\ e.etag.some
    /\ \A i \in 1..Len(req.if_none_match.items) :
          req.if_none_match.items[i].weak # e.etag.v.weak
    /\ ~PreconditionFails
    /\ ~IfModifiedSinceHolds
    /\ res.status = 304

\* C5: when If-None-Match did not force not-modified (absent, or present without
\* a match), If-Modified-Since yields 304 iff the modification time is known and
\* is at most the supplied timestamp.
C5_IfModifiedSince ==
    (Responded /\ GetOrHead /\ ~PreconditionFails /\ ~IfNoneMatchForces
        /\ req.if_modified_since.some)
    => (res.status = 304
           <=> (e.last_modified.some
                  /\ e.last_modified.v <= req.if_modified_since.v))

C5_Witness ==
    /\ Responded /\ GetOrHead /\ ~PreconditionFails
    /\ req.if_none_match.kind = "Items" /\ ~IfNoneMatchForces
    /\ req.if_modified_since.some /\ e.last_modified.some
    /\ e.last_modified.v = req.if_modified_since.v
    /\ res.status = 304

\* C6: a GET or HEAD with no failed precondition and the not-modified condition
\* is answered 304 with no body, no Content-Range, no Content-Length and no
\* entity content headers, whatever Range and If-Range are; the range resolver
\* and the entity's range reader are not invoked.
C6_NotModifiedIs304 ==
    (pc # "request" /\ GetOrHead /\ ~PreconditionFails /\ NotModifiedHolds)
    => /\ Responded
       /\ res.status = 304
       /\ res.body = EmptyBody
       /\ res.content_range = NoContentRange
       /\ res.content_length = NoneVal
       /\ ~res.entity_headers
       /\ res.content_type = ""
       /\ calls.range_hdr = NoneVal
       /\ calls.get_range = <<>>
       /\ calls.add_headers = 0

C6_Witness ==
    /\ Responded /\ GetOrHead /\ ~PreconditionFails /\ NotModifiedHolds
    /\ req.range = RangeBytes(<<AllFrom(U64Max)>>)
    /\ res.status = 304

\* C7: a present Range header is honored iff If-Range is absent or carries a tag
\* that strong-compares equal to the validator; an If-Range date never honors
\* it, even when equal to the modification time; an ignored range gives the 200
\* response with the whole entity, even if the range was unsatisfiable.
C7_IfRangeGatesRange ==
    (pc # "request" /\ ReachesRanges /\ req.range.kind # "None")
    => /\ RangeHonored \/ RangeIgnored
       /\ RangeHonored <=> (req.if_range.kind = "None" \/ IfRangeStrongEqual)
       /\ req.if_range.kind = "Date" => RangeIgnored
       /\ RangeIgnored => (Responded /\ IsFull)

C7_Witness ==
    /\ Responded /\ ReachesRanges
    /\ req.range = RangeBytes(<<AllFrom(U64Max)>>)
    /\ e.last_modified.some
    /\ req.if_range = IfRangeDate(e.last_modified.v)
    /\ res.status = 200

\* C8: the entity's content headers are at top level on every 200 and on a
\* single-range 206 without If-Range, and inside the parts of a multipart 206
\* without If-Range; a 206 under a strong-matching If-Range tag carries none, and
\* 304, 405, 412 and 416 never carry them.
C8_EntityHeaders ==
    Responded
    => /\ res.entity_headers
             <=> \/ res.status = 200
                 \/ /\ res.status = 206
                    /\ res.content_range.kind = "Bytes"
                    /\ req.if_range.kind = "None"
       /\ res.entity_headers <=> res.content_type = EntityContentType
       /\ \A i \in 1..Len(stream.out) :
             stream.out[i].kind = "header"
                => (stream.out[i].header.entity_headers <=> req.if_range.kind = "None")
       /\ \A i \in 1..Len(stream.part_headers) :
             stream.part_headers[i] # EmptyVec
                => (stream.part_headers[i].entity_headers <=> req.if_range.kind = "None")
       /\ res.status = 206 => (calls.add_headers = 1 <=> req.if_range.kind = "None")
       /\ (res.status = 206 /\ req.if_range.kind # "None")
             => (IfRangeStrongEqual /\ ~res.entity_headers /\ calls.add_headers = 0)
       /\ res.status \in {304, 405, 412, 416}
             => (~res.entity_headers /\ calls.add_headers = 0)

C8_Witness ==
    /\ Responded
    /\ res.status = 206
    /\ IfRangeStrongEqual
    /\ \E i \in 1..Len(stream.out) :
          stream.out[i].kind = "header" /\ ~stream.out[i].header.entity_headers

\* C9: when the honored Range resolves to exactly one interval [s, e), a GET is
\* answered 206 with Content-Range bytes s-(e-1)/length, Content-Length e - s and
\* the entity's bytes s..e as body; when no Range is honored it is answered 200
\* with Content-Length length, no Content-Range and the whole entity.
C9_SingleRangeAndFull ==
    (Responded /\ req.method = "GET" /\ calls.range_hdr.some)
    => LET resolved == parse_range_header(calls.range_hdr.v, e.len)
       IN  /\ (resolved.kind = "Satisfiable" /\ Len(resolved.ranges) = 1)
                => LET r == resolved.ranges[1]
                   IN  /\ res.status = 206
                       /\ res.content_range = ContentRangeBytes(r.start, r.end - 1, e.len)
                       /\ res.content_length = Some(r.end - r.start)
                       /\ res.body = EntityBody(r)
                       /\ calls.get_range = <<r>>
           /\ resolved.kind = "None" => IsFull

C9_Witness ==
    /\ Responded /\ req.method = "GET"
    /\ req.range = RangeBytes(<<FromTo(0, SmallLen)>>)
    /\ e.len = SmallLen
    /\ res.status = 206
    /\ res.content_range = ContentRangeBytes(0, SmallLen - 1, SmallLen)
    /\ res.content_length = Some(SmallLen)

\* the sum over the intervals rs[1..n] of (80 + interval size)
RECURSIVE EstimatedTotal(_, _)
EstimatedTotal(rs, n) ==
    IF n = 0 THEN 0 ELSE EstimatedTotal(rs, n - 1) + 80 + (rs[n].end - rs[n].start)

IsMultipart ==
    /\ res.status = 206
    /\ res.content_type = "multipart/byteranges; boundary=B"
    /\ res.content_range = NoContentRange

\* C10: when the honored Range resolves to two or more intervals, the response is
\* a 206 multipart response iff the sum over the intervals of (80 + interval size)
\* is strictly less than the entity length; otherwise it is the 200 response with
\* the whole entity.
C10_MultipartIffCheaper ==
    (Responded /\ calls.range_hdr.some)
    => LET resolved == parse_range_header(calls.range_hdr.v, e.len)
           rs == resolved.ranges
       IN  (resolved.kind = "Satisfiable" /\ Len(rs) >= 2)
              => IF EstimatedTotal(rs, Len(rs)) < e.len THEN IsMultipart ELSE IsFull

\* The same, for the requests whose estimate fits u64.
C10_WithoutOverflow ==
    (Responded /\ calls.range_hdr.some)
    => LET resolved == parse_range_header(calls.range_hdr.v, e.len)
           rs == resolved.ranges
       IN  (resolved.kind = "Satisfiable" /\ Len(rs) >= 2
              /\ EstimatedTotal(rs, Len(rs)) <= U64Max)
              => IF EstimatedTotal(rs, Len(rs)) < e.len THEN IsMultipart ELSE IsFull

(***************************************************************************)
(* C11..C20: the multipart body, HEAD, the error responses and the headers *)
(* of every response.                                                      *)
(***************************************************************************)

\* the intervals the honored Range header resolves to
ResolvedIntervals == parse_range_header(calls.range_hdr.v, e.len).ranges

\* the header block of the part of interval r
PartHeaderOf(r) == part_header(r, e.len, req.if_range.kind = "None")

\* the sum over the intervals rs[1..n] of (header block length + interval size)
RECURSIVE PartsTotal(_, _)
PartsTotal(rs, n) ==
    IF n = 0 THEN 0
    ELSE PartsTotal(rs, n - 1) + PartHeaderOf(rs[n]).size + (rs[n].end - rs[n].start)

\* the number of bytes of the chunks out[1..n]
RECURSIVE EmittedBytes(_, _)
EmittedBytes(out, n) ==
    IF n = 0 THEN 0 ELSE EmittedBytes(out, n - 1) + chunk_len(out[n])

\* the header chunks among out[1..k]
HeadersUpTo(out, k) == Cardinality({j \in 1..k : out[j].kind = "header"})

MultipartFraming(total) ==
    /\ res.content_length = Some(total)
    /\ res.content_type = "multipart/byteranges; boundary=B"
    /\ res.content_range = NoContentRange
    /\ calls.get_range = <<>>
    /\ stream.out = <<>> => stream.get_range = <<>>
    /\ \A k \in 1..Len(stream.out) :
          stream.out[k].kind = "header"
             => LET r == ResolvedIntervals[HeadersUpTo(stream.out, k)]
                IN  /\ stream.out[k].header.first = r.start
                    /\ stream.out[k].header.last = r.end - 1
                    /\ stream.out[k].header.len = e.len
    /\ stream.done => EmittedBytes(stream.out, Len(stream.out)) = total

\* C11: the Content-Length of a multipart response is the sum over the parts of
\* (header block length + interval size) plus the trailer length, is set without
\* a range read, and is the number of bytes the body stream emits; each part's
\* header carries Content-Range bytes start-(end-1)/length, the top-level
\* Content-Type is multipart/byteranges; boundary=B and there is no top-level
\* Content-Range.
C11_MultipartContentLength ==
    (Responded /\ IsMultipart)
    => MultipartFraming(PartsTotal(ResolvedIntervals, Len(ResolvedIntervals))
                        + TRAILER_len)

\* The same, for the responses whose length fits u64.
C11_WithoutOverflow ==
    (Responded /\ IsMultipart
       /\ EstimatedTotal(ResolvedIntervals, Len(ResolvedIntervals)) <= U64Max
       /\ PartsTotal(ResolvedIntervals, Len(ResolvedIntervals)) + TRAILER_len <= U64Max)
    => MultipartFraming(PartsTotal(ResolvedIntervals, Len(ResolvedIntervals))
                        + TRAILER_len)

\* a fully streamed multipart response whose estimate did not overflow
C11_WithoutOverflowReached ==
    /\ Responded /\ IsMultipart /\ stream.done
    /\ e.len = TestLen
    /\ res.content_length = Some(EmittedBytes(stream.out, Len(stream.out)))

\* a GET was answered with a multipart body
MultipartBodyServed == Responded /\ req.method = "GET" /\ IsMultipart

\* the chunks out[1..k-1] end the part whose header is the last one among them
PartEndsBefore(out, k) ==
    LET r == ResolvedIntervals[HeadersUpTo(out, k - 1)]
    IN  \/ out[k - 1].kind = "header" /\ r.start = r.end
        \/ out[k - 1].kind = "data" /\ out[k - 1].range.end = r.end

\* out is the beginning of: header of part 1, bytes of interval 1, ..., header of
\* part n, bytes of interval n, trailer
FramingOrder(out) ==
    \A k \in 1..Len(out) :
       LET i == HeadersUpTo(out, k)
       IN  CASE out[k].kind = "header" ->
                  /\ i <= Len(ResolvedIntervals)
                  /\ out[k].header = PartHeaderOf(ResolvedIntervals[i])
                  /\ k > 1 => PartEndsBefore(out, k)
             [] out[k].kind = "data" ->
                  /\ k > 1 /\ i >= 1
                  /\ out[k].range.start < out[k].range.end
                  /\ out[k].range.end <= ResolvedIntervals[i].end
                  /\ out[k].range.start =
                        IF out[k - 1].kind = "header" THEN ResolvedIntervals[i].start
                        ELSE out[k - 1].range.end
                  /\ out[k - 1].kind # "trailer"
             [] out[k].kind = "trailer" ->
                  /\ i = Len(ResolvedIntervals)
                  /\ k > 1 /\ PartEndsBefore(out, k)
                  /\ k = Len(out)

StreamOrder ==
    MultipartBodyServed
    => /\ FramingOrder(stream.out)
       /\ stream.done => (stream.out # <<>>
                            /\ stream.out[Len(stream.out)].kind = "trailer")

\* C12: the body stream of a GET multipart response emits, for each interval in
\* request order, the part's header chunk and then the interval's bytes, then one
\* trailer chunk, and nothing else; when the consumer keeps polling and the
\* entity's streams end without failing, the body stream ends.
C12_StreamOrder ==
    /\ []StreamOrder
    /\ ([]~stream.failed) => (MultipartBodyServed ~> stream.done)

C12_Witness ==
    /\ MultipartBodyServed
    /\ stream.done
    /\ Len(stream.out) = 6
    /\ stream.out[2].kind = "data" /\ stream.out[3].kind = "header"
    /\ stream.out[5].kind = "data" /\ stream.out[6].kind = "trailer"

\* the parts whose header the consumer has received and polled past
PartsDemanded ==
    LET out == stream.out
        h == HeadersUpTo(out, Len(out))
    IN  IF out # <<>> /\ out[Len(out)].kind = "header" /\ stream.result = "chunk"
        THEN h - 1 ELSE h

\* the parts all of whose chunks the consumer has received
PartsConsumed ==
    LET out == stream.out
        h == HeadersUpTo(out, Len(out))
    IN  IF out # <<>> /\ out[Len(out)].kind = "trailer" THEN h
        ELSE IF h = 0 THEN 0 ELSE h - 1

\* C13: in a multipart response the range reader is not invoked by serve; it is
\* invoked for interval i, in interval order, only once the consumer has received
\* the header chunk of part i and every chunk of the earlier parts and has polled
\* again; so the number of range reads is at most one more than the number of
\* parts fully consumed, however early the consumer stops.
C13_LazyRangeReads ==
    (Responded /\ IsMultipart)
    => /\ calls.get_range = <<>>
       /\ stream.result = "" => stream.get_range = <<>>
       /\ Len(stream.get_range) <= PartsDemanded
       /\ Len(stream.get_range) <= PartsConsumed + 1
       /\ Len(stream.get_range) <= Len(ResolvedIntervals)
       /\ stream.get_range = SubSeq(ResolvedIntervals, 1, Len(stream.get_range))
       /\ FramingOrder(stream.out)

C13_Witness ==
    /\ MultipartBodyServed
    /\ stream.result = "not_ready"
    /\ Len(stream.get_range) = 2
    /\ PartsConsumed = 1
    /\ Len(ResolvedIntervals) = 2
    /\ stream.out[Len(stream.out)].kind = "header"

\* the status line and the headers of a response
HeadersOf(r) == [r EXCEPT !.body = EmptyBody]

\* the request with the other of the two methods GET and HEAD
OtherMethod == [req EXCEPT !.method = IF @ = "GET" THEN "HEAD" ELSE "GET"]

\* C14: when a GET is answered 200 or 206 (whole entity, single range or
\* multipart), the HEAD with the same headers on the same entity at the same
\* instant has the same status and the same headers, Content-Length,
\* Content-Range and Content-Type included, and no body.
C14_HeadAsGet ==
    (Responded /\ GetOrHead /\ res.status \in {200, 206})
    => /\ \E now \in NowTimes :
             HeadersOf(serve(e, OtherMethod, now).res) = HeadersOf(res)
       /\ res.content_length.some
       /\ req.method = "HEAD"
             => /\ res.body = EmptyBody
                /\ calls.get_range = <<>>
                /\ stream.rs = <<>>
                /\ \A now \in NowTimes : serve(e, OtherMethod, now).res.body # EmptyBody

C14_Witness ==
    /\ Responded /\ req.method = "HEAD"
    /\ IsMultipart
    /\ res.content_length.some
    /\ res.body = EmptyBody

\* C15: a HEAD request never gets a response body, whatever the status.
C15_HeadHasNoBody ==
    (Responded /\ req.method = "HEAD") => res.body = EmptyBody

\* The same, for the statuses other than 412.
C15_HeadHasNoBodyUnless412 ==
    (Responded /\ req.method = "HEAD" /\ res.status # 412) => res.body = EmptyBody

\* C16: when the Range header is honored and the resolver drops every unit, the
\* response is 416 with Content-Range bytes */length, an empty body, no
\* Content-Length and no entity content headers, and there is no range read.
C16_NotSatisfiableIs416 ==
    (Responded /\ RangeHonored /\ req.range.kind = "Bytes"
       /\ parse_range_header(req.range, e.len).kind = "NotSatisfiable")
    => /\ res.status = 416
       /\ res.content_range = ContentRangeUnsatisfied(e.len)
       /\ res.body = EmptyBody
       /\ res.content_length = NoneVal
       /\ ~res.entity_headers
       /\ res.content_type = ""
       /\ calls.add_headers = 0
       /\ calls.get_range = <<>>
       /\ stream.get_range = <<>>

C16_Witness ==
    /\ Responded
    /\ req.range = RangeBytes(<<AllFrom(SmallLen), Last(SmallLen)>>)
    /\ e.len = SmallLen
    /\ res.status = 416
    /\ res.content_range = ContentRangeUnsatisfied(SmallLen)

\* C17: a request of a method other than GET and HEAD is answered 405 with Allow
\* GET, HEAD and the fixed text body, whatever its conditional and range headers
\* are, and the entity's validator, modification time, length and range reader
\* are not consulted.
C17_OtherMethodIs405 ==
    (pc # "request" /\ ~GetOrHead)
    => /\ Responded
       /\ res.status = 405
       /\ res.allow = {"GET", "HEAD"}
       /\ res.body = OnceBody("This resource only supports GET and HEAD.")
       /\ calls.consulted = {}
       /\ calls.range_hdr = NoneVal
       /\ calls.get_range = <<>>
       /\ calls.add_headers = 0
       /\ stream.get_range = <<>>

C17_Witness ==
    /\ Responded /\ ~GetOrHead
    /\ PreconditionFails
    /\ NotModifiedHolds
    /\ req.range.kind = "Bytes"
    /\ res.status = 405

\* C18: every 405, 412 and 416 response has a short fixed text body, a plain-text
\* content type and none of the entity's content headers.
C18_ErrorsArePlainText ==
    (Responded /\ res.status \in {405, 412, 416})
    => /\ res.body.kind = "Once" /\ res.body.text # ""
       /\ res.content_type = "text/plain"
       /\ ~res.entity_headers

\* C18 as amended: a 405 and a 412 response (of a HEAD too) has its fixed text
\* body and a 416 response an empty body; none of the three has a Content-Type
\* or a Content-Length set by serve, nor any of the entity's content headers.
C18_ErrorBodies ==
    (Responded /\ res.status \in {405, 412, 416})
    => /\ res.status = 405
             => res.body = OnceBody("This resource only supports GET and HEAD.")
       /\ res.status = 412 => res.body = OnceBody("Precondition failed")
       /\ res.status = 416 => res.body = EmptyBody
       /\ res.content_type = ""
       /\ res.content_length = NoneVal
       /\ ~res.entity_headers
       /\ calls.add_headers = 0

C18_Witness ==
    /\ Responded
    /\ res.status = 405
    /\ res.body.kind = "Once"
    /\ res.content_type = ""

\* C19: every response, in every terminal state, carries Accept-Ranges: bytes,
\* an ETag equal to the validator exactly when the entity has one, and a
\* Last-Modified exactly when the modification time is known.
C19_EveryResponse ==
    Responded
    => /\ res.accept_ranges
       /\ res.etag = e.etag
       /\ res.last_modified.some <=> e.last_modified.some

\* C19 as amended: every response to a GET or HEAD (every terminal state but
\* MethodRejected) carries them; a 405 response carries none of the three.
C19_EveryGetOrHeadResponse ==
    Responded
    => IF GetOrHead
       THEN /\ res.status # 405
            /\ res.accept_ranges
            /\ res.etag = e.etag
            /\ res.last_modified.some <=> e.last_modified.some
       ELSE /\ res.status = 405
            /\ ~res.accept_ranges
            /\ res.etag = NoneVal
            /\ res.last_modified = NoneVal

C19_Witness ==
    /\ Responded /\ GetOrHead
    /\ res.status = 412
    /\ res.accept_ranges
    /\ e.etag.some /\ res.etag = e.etag
    /\ res.last_modified.some

\* C20: a response with a Last-Modified header has a Date header, and its
\* Last-Modified is the smaller of the entity's modification time and that Date.
C20_LastModifiedNotAfterDate ==
    (Responded /\ res.last_modified.some)
    => /\ res.date.some
       /\ e.last_modified.some
       /\ res.last_modified.v =
             IF e.last_modified.v <= res.date.v THEN e.last_modified.v ELSE res.date.v
       /\ res.last_modified.v <= res.date.v

C20_Witness ==
    /\ Responded
    /\ res.last_modified.some
    /\ e.last_modified.v > res.date.v
    /\ res.last_modified = res.date

(***************************************************************************)
(* C21..C30: the range resolver, the range reads and stream failures.      *)
(***************************************************************************)

\* parse_range_header was called on a byte-range header and returned
ParsedBytes == calls.resolved.some /\ calls.range_hdr.v.kind = "Bytes"
\* the units of that header and the intervals returned
ParsedUnits == calls.range_hdr.v.specs
ParsedIntervals == calls.resolved.v.ranges

\* parse_range_header was called on a byte-range header, and returned or aborted
CalledOnBytes == calls.range_hdr.some /\ calls.range_hdr.v.kind = "Bytes"

\* The conversion of one unit for an entity of length len, in unbounded
\* arithmetic: whether it survives, and its half-open interval.
UnitSurvives(u, len) ==
    CASE u.kind = "FromTo" -> u.from < (IF u.to + 1 <= len THEN u.to + 1 ELSE len)
      [] u.kind = "AllFrom" -> u.from < len
      [] u.kind = "Last" -> u.from < len
UnitInterval(u, len) ==
    CASE u.kind = "FromTo" -> Range(u.from, IF u.to + 1 <= len THEN u.to + 1 ELSE len)
      [] u.kind = "AllFrom" -> Range(u.from, len)
      [] u.kind = "Last" -> Range(len - u.from, len)

\* the intervals of the surviving units among units, in their order
RECURSIVE ConvertedUnits(_, _)
ConvertedUnits(units, len) ==
    IF units = <<>> THEN <<>>
    ELSE IF UnitSurvives(Head(units), len)
         THEN <<UnitInterval(Head(units), len)>> \o ConvertedUnits(Tail(units), len)
         ELSE ConvertedUnits(Tail(units), len)

StartAnchored(units) ==
    \A i \in 1..Len(units) : units[i].kind \in {"FromTo", "AllFrom"}
SuffixOnly(units) ==
    \A i \in 1..Len(units) : units[i].kind = "Last"

\* C21: from-to(a, b) becomes [a, min(b+1, length)) exactly when
\* a < min(b+1, length) and all-from(a) becomes [a, length) exactly when
\* a < length; every other start-anchored unit is dropped.
C21_StartAnchoredUnits ==
    (CalledOnBytes /\ StartAnchored(ParsedUnits))
    => /\ calls.resolved.some
       /\ ParsedIntervals = ConvertedUnits(ParsedUnits, e.len)

\* The same, for the from-to units whose end is below the largest u64.
C21_WithoutOverflow ==
    (CalledOnBytes /\ StartAnchored(ParsedUnits)
       /\ \A i \in 1..Len(ParsedUnits) : ParsedUnits[i].to # U64Max)
    => /\ calls.resolved.some
       /\ ParsedIntervals = ConvertedUnits(ParsedUnits, e.len)

C23_SuffixOfWholeLength ==
    (CalledOnBytes /\ e.len > 0 /\ ParsedUnits = <<Last(e.len)>>)
    => /\ calls.resolved.some
       /\ calls.resolved.v = [kind |-> "Satisfiable", ranges |-> <<Range(0, e.len)>>]

\* C24: the result is None iff no byte-range header is supplied, NotSatisfiable
\* iff one is supplied and the resolver drops every unit (a header without units
\* included), Satisfiable iff some unit survives; for length 0 every byte-range
\* header gives NotSatisfiable.
C24_ResultKinds ==
    calls.resolved.some
    => LET hdr == calls.range_hdr.v
           kind == calls.resolved.v.kind
           kept == {i \in 1..Len(hdr.specs) : ~unit_skipped(hdr.specs[i], e.len)}
       IN  /\ kind \in {"None", "NotSatisfiable", "Satisfiable"}
           /\ kind = "None" <=> hdr.kind # "Bytes"
           /\ kind = "NotSatisfiable" <=> (hdr.kind = "Bytes" /\ kept = {})
           /\ kind = "Satisfiable" <=> (hdr.kind = "Bytes" /\ kept # {})
           /\ kind = "Satisfiable" <=> calls.resolved.v.ranges # <<>>
           /\ (hdr.kind = "Bytes" /\ e.len = 0) => kind = "NotSatisfiable"

C24_Witness ==
    /\ pc = "parsed"
    /\ calls.range_hdr.v = RangeBytes(<<>>)
    /\ calls.resolved.v.kind = "NotSatisfiable"

\* C25: the k-th returned interval is the conversion of the k-th unit the
\* resolver kept; adjacent, overlapping and identical intervals are neither
\* merged, deduplicated nor reordered.
C25_OrderPreserved ==
    ParsedBytes
    => LET kept == {i \in 1..Len(ParsedUnits) : ~unit_skipped(ParsedUnits[i], e.len)}
       IN  /\ Len(ParsedIntervals) = Cardinality(kept)
           /\ \A i \in kept :
                 ParsedIntervals[Cardinality({j \in kept : j <= i})]
                    = unit_range(ParsedUnits[i], e.len)
           /\ \A i \in 1..Len(ParsedUnits) :
                 ParsedUnits[i].to # U64Max
                    => (i \in kept <=> UnitSurvives(ParsedUnits[i], e.len))
           /\ (\A i \in 1..Len(ParsedUnits) : ParsedUnits[i].to # U64Max)
                 => ParsedIntervals = ConvertedUnits(ParsedUnits, e.len)

C25_Witness ==
    /\ pc = "parsed"
    /\ e.len = MaxOffset
    /\ ParsedUnits = <<FromTo(0, 1), FromTo(0, 1)>>
    /\ ParsedIntervals = <<Range(0, 2), Range(0, 2)>>

\* C30: range_to + 1 never overflows: from-to(a, b) with b the largest u64 and
\* a < length resolves to [a, length).
C30_RangeToPlusOne ==
    (CalledOnBytes
       /\ \E a \in 0..(e.len - 1) : ParsedUnits = <<FromTo(a, U64Max)>>)
    => /\ calls.resolved.some
       /\ calls.resolved.v =
             [kind |-> "Satisfiable", ranges |-> <<Range(ParsedUnits[1].from, e.len)>>]


\* C26: every interval of a Satisfiable result is valid and non-empty,
\* 0 <= start < end <= length; so a single-range 206 response has Content-Range
\* first <= last < length and Content-Length >= 1.
C26_IntervalsNonEmpty ==
    /\ (calls.resolved.some /\ calls.resolved.v.kind = "Satisfiable")
       => \A i \in 1..Len(ParsedIntervals) :
             /\ 0 <= ParsedIntervals[i].start
             /\ ParsedIntervals[i].start < ParsedIntervals[i].end
             /\ ParsedIntervals[i].end <= e.len
    /\ (Responded /\ res.status = 206 /\ res.content_range.kind = "Bytes")
       => /\ res.content_range.first <= res.content_range.last
          /\ res.content_range.last < e.len
          /\ res.content_length.some
          /\ res.content_length.v >= 1

\* The same, for the headers without a suffix of no bytes.
C26_WithoutEmptySuffix ==
    (calls.resolved.some /\ calls.range_hdr.v.kind = "Bytes"
       /\ \A i \in 1..Len(ParsedUnits) : ParsedUnits[i] # Last(0))
    => C26_IntervalsNonEmpty

\* a range inside the entity
ValidRead(r) == 0 <= r.start /\ r.start <= r.end /\ r.end <= e.len

\* C27: every call of get_range, by serve or by the multipart body stream, is
\* made with a range [s, e) such that 0 <= s <= e <= length.
C27_ReadsWithinEntity ==
    /\ \A i \in 1..Len(calls.get_range) : ValidRead(calls.get_range[i])
    /\ \A i \in 1..Len(stream.get_range) : ValidRead(stream.get_range[i])
    /\ stream.next.kind = "B" => ValidRead(stream.next.range)
    /\ res.body.kind = "Entity" => ValidRead(res.body.range)

C27_Witness ==
    /\ MultipartBodyServed
    /\ stream.done
    /\ Len(stream.get_range) = 2
    /\ stream.get_range[1].start = 0
    /\ stream.get_range[2].end = e.len

\* the 200 response with the whole entity or the 206 response with one range
FullOrSingleRange ==
    res.status = 200 \/ (res.status = 206 /\ res.content_range.kind = "Bytes")

\* C28: get_range is called exactly once for a GET answered with the whole
\* entity or a single range, exactly once per resolved interval, in their order,
\* for a GET multipart response consumed to its end, and never for a HEAD nor
\* for a 304, 405, 412 or 416 response.
C28_RangeReadCounts ==
    Responded
    => /\ res.status \in {200, 206, 304, 405, 412, 416}
       /\ (req.method = "GET" /\ FullOrSingleRange)
             => /\ Len(calls.get_range) = 1
                /\ stream.get_range = <<>>
                /\ ~BodyPollable
       /\ (req.method = "GET" /\ IsMultipart)
             => /\ calls.get_range = <<>>
                /\ Len(stream.get_range) <= Len(ResolvedIntervals)
                /\ stream.get_range = SubSeq(ResolvedIntervals, 1, Len(stream.get_range))
                /\ stream.done => stream.get_range = ResolvedIntervals
       /\ (req.method = "HEAD" \/ res.status \in {304, 405, 412, 416})
             => /\ calls.get_range = <<>>
                /\ stream.get_range = <<>>
                /\ ~BodyPollable

C28_Witness ==
    /\ MultipartBodyServed
    /\ stream.done
    /\ ResolvedIntervals = <<Range(0, 1), Range(0, 1)>>
    /\ stream.get_range = <<Range(0, 1), Range(0, 1)>>

\* the consumer's poll of this step reaches an entity's stream, which reports a
\* failure
EntityStreamFails == BodyPollable /\ stream'.entity = "error"

\* a failed body stream has returned the failure, not its end
FailureReturned ==
    stream.failed
    => /\ stream.result = "error"
       /\ stream.entity = "error"
       /\ ~stream.done
       /\ stream.next.kind = "B"
       /\ stream.get_range # <<>>
       /\ stream.get_range[Len(stream.get_range)] = stream.next.range
       /\ \A k \in 1..Len(stream.out) : stream.out[k].kind # "trailer"

\* the body of a response with the whole entity or a single range is the stream
\* get_range returned, with nothing of serve's around it
EntityStreamIsBody ==
    (Responded /\ req.method = "GET" /\ FullOrSingleRange)
    => /\ res.body.kind = "Entity"
       /\ calls.get_range = <<res.body.range>>
       /\ stream = NewStream(<<>>, <<>>)

\* C29: when the stream the entity returned for a range fails, the body stream
\* returns that failure to its consumer in the same poll: the chunks already
\* handed out stay as they are, no end of stream and no further framing takes
\* the failure's place, and the failed range is not requested again.
C29_FailurePropagated ==
    /\ []FailureReturned
    /\ []EntityStreamIsBody
    /\ [][EntityStreamFails
            => /\ stream'.failed
               /\ stream'.result = "error"
               /\ ~stream'.done
               /\ stream'.out = stream.out
               /\ stream'.next.kind = "B"
               /\ stream'.get_range \in
                     {stream.get_range, Append(stream.get_range, stream'.next.range)}
               /\ stream'.get_range =
                     SubSeq(ResolvedIntervals, 1, Len(stream'.get_range))]_vars

C29_Witness ==
    /\ MultipartBodyServed
    /\ stream.failed
    /\ stream.result = "error"
    /\ Len(stream.get_range) = 2
    /\ stream.next.range.start < stream.next.pos
    /\ stream.next.pos < stream.next.range.end
    /\ stream.out[Len(stream.out)].kind = "data"

====
